---- MODULE Spec2Model ----
(***************************************************************************)
(* Model of src/app.py: the port-forward backend.  The program state is    *)
(* the module-level table active_forwards and the lock forward_lock; the   *)
(* handlers forward, stop_forward and status run on request threads, and   *)
(* every registered session gets a daemon timer thread (timeout_handler).  *)
(* kubectl child processes are the environment: a running child may exit   *)
(* at any moment.                                                          *)
(***************************************************************************)
EXTENDS Integers, Sequences, FiniteSets, TLC

\* ------------------------------------------------------------- bounds
MaxSessions == 2        \* forward requests that pass validation (one uuid each)
MaxStops == 2           \* stop requests

\* ---------------------------------------------------------- program constants
PortBase == 9000
DefaultPort == 8080
\* The size of the port range, 1000 in the program (line 206): one port fewer
\* than there are start requests, so that the range can be used up
PoolSize == MaxSessions - 1
Pool == {PortBase + k : k \in 0..(PoolSize - 1)}

SessionIds == 1..MaxSessions
UnknownId == 0          \* a session_id that no uuid4() call returned
NoThread == <<"none", 0>>
StopThreads == {"stop"} \X (1..MaxStops)
TimerThreads == {"timer"} \X SessionIds
Actors == StopThreads \cup TimerThreads

Namespaces == {"", "demo"}          \* "" is a missing query parameter
Pods == {"", "web-0", "web-1"}
PortArgs == {"", "8080", "http"}
HashValues == 0..PoolSize           \* hash(session_id)
Diagnostics == {"pod not found"}    \* what kubectl wrote to stderr
LaunchOutcomes == {"popen_error", "exited", "thread_error", "ok"}
LaunchErrorText == "No se pudo iniciar el port-forward"
ThreadErrorText == "can't start new thread"

VARIABLES
    active_forwards,    \* dict session_id -> session record
    forward_lock,       \* the thread holding forward_lock, or NoThread
    proc,               \* kubectl child processes, by the session id they were launched for
    signals,            \* per process: the signals sent to it, in order, with their sender
    fwd,                \* forward() requests, by the session id they generated
    thr,                \* stop request threads and timer threads
    nextId,             \* the next fresh uuid
    now,                \* time.time(), a logical clock
    removals,           \* per session id: how many times its entry was deleted
    status_list         \* the response of status(), in the state that follows the call

vars == <<active_forwards, forward_lock, proc, signals, fwd, thr, nextId, now,
          removals, status_list>>

\* An HTTP response: the status code and the variable texts of its body
NoResp == [code |-> 0, body |-> <<>>]
NoListing == {[session_id |-> UnknownId]}

\* int(request.args.get('port', 8080)); -1 stands for the ValueError
ParsePort(a) ==
    IF a = "" THEN DefaultPort
    ELSE IF a = "8080" THEN 8080
    ELSE -1

\* local_port = 9000 + (hash(session_id) % 1000)
LocalPort(h) == PortBase + (h % PoolSize)

\* The child process has not exited
Running(p) == proc[p].state = "running"

PollAlwaysNone(p) == "None"

\* process.poll(): None while the child runs, its return code afterwards
Poll(p) == IF proc[p].state = "exited" THEN "returncode" ELSE "None"

Registered == DOMAIN active_forwards

Init ==
    /\ active_forwards = <<>>
    /\ forward_lock = NoThread
    /\ proc = [p \in SessionIds |-> [state |-> "none", stderr |-> ""]]
    /\ signals = [p \in SessionIds |-> <<>>]
    /\ fwd = [r \in SessionIds |->
                [pc |-> "idle", local_port |-> 0, launch |-> "", resp |-> NoResp]]
    /\ thr = [a \in Actors |->
                [pc |-> IF a[1] = "stop" THEN "idle" ELSE "unarmed",
                 sid |-> IF a[1] = "timer" THEN a[2] ELSE UnknownId,
                 overlap |-> FALSE, result |-> "none", resp |-> NoResp]]
    /\ nextId = 1
    /\ now = 0
    /\ removals = [i \in SessionIds |-> 0]
    /\ status_list = NoListing

\* ---------------------------------------------------------------- forward()

CanAcquireUnlocked == TRUE

\* with forward_lock: the lock can be taken when no thread holds it
CanAcquire == forward_lock = NoThread

LockHolderNone(a) == NoThread

\* with forward_lock: the thread that holds the lock inside the block
LockHolder(a) == a

StartPortForwardNoPoll(launch) ==
    IF launch = "popen_error" THEN "None" ELSE "process"

\* start_port_forward, lines 38-70: what it returns for each behaviour of the
\* executor.  "popen_error": Popen raised (line 68); "exited": the child had
\* exited when polled after the one-second window (line 59); otherwise the
\* child was still running and its handle is returned.
StartPortForward(launch) ==
    IF launch \in {"popen_error", "exited"} THEN "None" ELSE "process"

\* The error page of forward() when start_port_forward returned None,
\* lines 211-221; stderr was only logged by start_port_forward (line 62)
LaunchFailedResp(stderr) == [code |-> 500, body |-> <<LaunchErrorText>>]

\* The session record stored at lines 225-232
SessionRecord(id, ns, pod, port, local_port) ==
    [process |-> id, namespace |-> ns, pod |-> pod, pod_port |-> port,
     local_port |-> local_port, started_at |-> now]

RegisterRestamp(id, rec) ==
    /\ CanAcquire
    /\ active_forwards' = [i \in Registered \cup {id} |-> rec]
    /\ now' = now + 1

\* active_forwards[session_id] = {...} under forward_lock, lines 224-232
Register(id, rec) ==
    /\ CanAcquire
    /\ active_forwards' =
         [i \in Registered \cup {id} |-> IF i = id THEN rec ELSE active_forwards[i]]
    /\ now' = now + 1

\* forward(), lines 187-256.  A request that fails validation returns 400/500
\* without touching any state.  launch is the behaviour of the executor during
\* start_port_forward; "thread_error" is Thread.start() raising at line 241
\* (RuntimeError, no thread can be started), which the except clause at line
\* 254 turns into a 500.  The steps before the registration touch nothing
\* another thread reads, so the handler is one step, taken when it gets the
\* lock.
Forward(ns, pod, portArg, h, launch, d) ==
    /\ ParsePort(portArg) # -1
    /\ ns # "" /\ pod # ""
    /\ nextId <= MaxSessions
    /\ LET id == nextId
           port == ParsePort(portArg)
           local_port == LocalPort(h)
           req == [pc |-> "done", local_port |-> local_port, launch |-> launch,
                   resp |-> NoResp]
       IN
        /\ nextId' = nextId + 1
        /\ proc' = CASE launch = "popen_error" -> proc
                     [] launch = "exited" ->
                          [proc EXCEPT ![id] = [state |-> "exited", stderr |-> d]]
                     [] OTHER -> [proc EXCEPT ![id].state = "running"]
        /\ IF StartPortForward(launch) = "None"
           THEN /\ fwd' = [fwd EXCEPT ![id] =
                            [req EXCEPT !.resp =
                               LaunchFailedResp(IF launch = "exited" THEN d ELSE "")]]
                /\ UNCHANGED <<active_forwards, now, thr>>
           ELSE /\ Register(id, SessionRecord(id, ns, pod, port, local_port))
                /\ IF launch = "thread_error"
                   THEN /\ thr' = thr
                        /\ fwd' = [fwd EXCEPT ![id] =
                                    [req EXCEPT !.resp =
                                       [code |-> 500, body |-> <<ThreadErrorText>>]]]
                   ELSE /\ thr' = [thr EXCEPT ![<<"timer", id>>].pc = "sleep"]
                        /\ fwd' = [fwd EXCEPT ![id] =
                                    [req EXCEPT !.resp =
                                       [code |-> 200, body |-> <<"success">>]]]
    /\ status_list' = NoListing
    /\ UNCHANGED <<forward_lock, signals, removals>>

\* ------------------------------------------------------- stop_port_forward

\* Session ids are uuid4 values made by forward(): a client can name only an
\* id that was registered at some time, or a string that is no session id
EverRegistered(id) == id \in SessionIds /\ (id \in Registered \/ removals[id] > 0)

\* Another thread is inside stop_port_forward(id), or waiting to enter it
InProgress(a, id) ==
    \E b \in Actors \ {a} : thr[b].sid = id /\ thr[b].pc \in {"acquire", "wait"}

\* stop_forward, lines 259-263: a stop request for id arrives.  overlap notes
\* whether the call began while another call for the same id was in progress.
StopRequest(s, id) ==
    /\ thr[s].pc = "idle"
    /\ \A t \in StopThreads : t[2] < s[2] => thr[t].pc # "idle"
    /\ id = UnknownId \/ EverRegistered(id)
    /\ thr' = [thr EXCEPT ![s].pc = "acquire", ![s].sid = id,
                          ![s].overlap = InProgress(s, id)]
    /\ status_list' = NoListing
    /\ UNCHANGED <<active_forwards, forward_lock, proc, signals, fwd, nextId, now,
                   removals>>

TimerTargetLatest(id) == nextId - 1

\* The session_id that timeout_handler passes to stop_port_forward, line 237:
\* the local variable of the forward() call that created the closure
TimerTarget(id) == id

\* timeout_handler, lines 235-237: the sleep of FORWARD_TIMEOUT seconds ends
TimerExpire(id) ==
    /\ thr[<<"timer", id>>].pc = "sleep"
    /\ thr' = [thr EXCEPT ![<<"timer", id>>].pc = "acquire",
                          ![<<"timer", id>>].sid = TimerTarget(id),
                          ![<<"timer", id>>].overlap = InProgress(<<"timer", id>>, id)]
    /\ status_list' = NoListing
    /\ UNCHANGED <<active_forwards, forward_lock, proc, signals, fwd, nextId, now,
                   removals>>

\* The response of stop_forward, lines 264-267, for each way stop_port_forward
\* ended; a timer thread answers nobody
StopResp(a, result) ==
    IF a[1] = "timer" THEN NoResp
    ELSE IF result = "keyerror" THEN [code |-> 500, body |-> <<"KeyError">>]
    ELSE [code |-> 200, body |-> <<"stopped">>]

DeleteAndReturnKeep(a) ==
    /\ UNCHANGED <<active_forwards, removals>>
    /\ thr' = [thr EXCEPT ![a].pc = "done", ![a].result = "removed",
                          ![a].resp = StopResp(a, "removed")]

\* del active_forwards[session_id], line 84, and the return of the call
DeleteAndReturn(a) ==
    LET id == thr[a].sid IN
    IF id \in Registered
    THEN /\ active_forwards' = [i \in Registered \ {id} |-> active_forwards[i]]
         /\ removals' = [removals EXCEPT ![id] = @ + 1]
         /\ thr' = [thr EXCEPT ![a].pc = "done", ![a].result = "removed",
                               ![a].resp = StopResp(a, "removed")]
    ELSE /\ UNCHANGED <<active_forwards, removals>>
         /\ thr' = [thr EXCEPT ![a].pc = "done", ![a].result = "keyerror",
                               ![a].resp = StopResp(a, "keyerror")]

\* stop_port_forward lines 75-79: take the lock, look the session up, poll
\* its process and ask it to terminate
StopAcquire(a) ==
    /\ thr[a].pc = "acquire"
    /\ CanAcquire
    /\ LET id == thr[a].sid IN
       IF id \notin Registered
       THEN /\ thr' = [thr EXCEPT ![a].pc = "done", ![a].result = "absent",
                                  ![a].resp = StopResp(a, "absent")]
            /\ UNCHANGED <<active_forwards, forward_lock, signals, removals>>
       ELSE IF Poll(active_forwards[id].process) # "None"
       THEN /\ DeleteAndReturn(a)
            /\ UNCHANGED <<forward_lock, signals>>
       ELSE /\ signals' = [signals EXCEPT ![active_forwards[id].process] =
                              Append(@, <<"terminate", a>>)]
            /\ forward_lock' = LockHolder(a)
            /\ thr' = [thr EXCEPT ![a].pc = "wait"]
            /\ UNCHANGED <<active_forwards, removals>>
    /\ status_list' = NoListing
    /\ UNCHANGED <<proc, fwd, nextId, now>>

\* stop_port_forward lines 80-85: process.wait returned within the 5 seconds
StopWaitExited(a) ==
    /\ thr[a].pc = "wait"
    /\ ~Running(thr[a].sid)
    /\ DeleteAndReturn(a)
    /\ forward_lock' = IF forward_lock = a THEN NoThread ELSE forward_lock
    /\ status_list' = NoListing
    /\ UNCHANGED <<proc, signals, fwd, nextId, now>>

\* stop_port_forward lines 82-85: TimeoutExpired, the process is killed
StopWaitTimeout(a) ==
    /\ thr[a].pc = "wait"
    /\ Running(thr[a].sid)
    /\ signals' = [signals EXCEPT ![thr[a].sid] = Append(@, <<"kill", a>>)]
    /\ DeleteAndReturn(a)
    /\ forward_lock' = IF forward_lock = a THEN NoThread ELSE forward_lock
    /\ status_list' = NoListing
    /\ UNCHANGED <<proc, fwd, nextId, now>>

\* ------------------------------------------------------------------ status()

ActiveFlagCached(p) == TRUE

\* 'active': process.poll() is None if process else False, line 283
ActiveFlag(p) == Poll(p) = "None"

\* One entry of status_list, lines 277-285
StatusEntry(id) ==
    [session_id |-> id,
     namespace |-> active_forwards[id].namespace,
     pod |-> active_forwards[id].pod,
     pod_port |-> active_forwards[id].pod_port,
     local_port |-> active_forwards[id].local_port,
     active |-> ActiveFlag(active_forwards[id].process),
     started_at |-> active_forwards[id].started_at]

\* status(), lines 271-286
Status ==
    /\ CanAcquire
    /\ status_list' = {StatusEntry(id) : id \in Registered}
    /\ UNCHANGED <<active_forwards, forward_lock, proc, signals, fwd, thr, nextId,
                   now, removals>>

\* --------------------------------------------------------------- environment

\* The kubectl child exits: on its own, killed out-of-band, or because of a
\* signal it was sent
ProcExit(p, d) ==
    /\ Running(p)
    /\ proc' = [proc EXCEPT ![p] = [state |-> "exited", stderr |-> d]]
    /\ status_list' = NoListing
    /\ UNCHANGED <<active_forwards, forward_lock, signals, fwd, thr, nextId, now,
                   removals>>

Next ==
    \/ \E ns \in Namespaces, pod \in Pods, pa \in PortArgs, h \in HashValues,
          launch \in LaunchOutcomes, d \in Diagnostics :
          Forward(ns, pod, pa, h, launch, d)
    \/ \E s \in StopThreads, id \in {UnknownId} \cup SessionIds : StopRequest(s, id)
    \/ \E id \in SessionIds : TimerExpire(id)
    \/ \E a \in Actors : StopAcquire(a)
    \/ \E a \in Actors : StopWaitExited(a)
    \/ \E a \in Actors : StopWaitTimeout(a)
    \/ Status
    \/ \E p \in SessionIds, d \in Diagnostics : ProcExit(p, d)

Spec == Init /\ [][Next]_vars

\* A process that was sent SIGKILL exits
Killed(p) == \E i \in DOMAIN signals[p] : signals[p][i][1] = "kill"

\* Scheduling: every thread that can run does (a sleep ends, a released lock is
\* taken, process.wait returns or times out), and a killed child exits
Fairness ==
    /\ \A id \in SessionIds : WF_vars(TimerExpire(id))
    /\ \A a \in Actors : WF_vars(StopAcquire(a))
    /\ \A a \in Actors : WF_vars(StopWaitExited(a))
    /\ \A a \in Actors : WF_vars(StopWaitTimeout(a))
    /\ \A p \in SessionIds :
         WF_vars(Killed(p) /\ \E d \in Diagnostics : ProcExit(p, d))

FairSpec == Spec /\ Fairness

\* -------------------------------------------------------------- properties

\* The stop request or timer thread a sent a signal to process p
Signalled(a, p) == \E i \in DOMAIN signals[p] : signals[p][i][2] = a

\* The variable texts of a response contain the text d
Carries(resp, d) == \E i \in DOMAIN resp.body : resp.body[i] = d

\* Every port of the range is the local_port of a registered session
PoolExhausted ==
    \A port \in Pool : \E i \in Registered : active_forwards[i].local_port = port

\* C1: no two sessions that are in the registry at the same time have the
\* same local_port.
C1_NoSharedPort ==
    \A i, j \in Registered :
        i # j => active_forwards[i].local_port # active_forwards[j].local_port

\* C2: a start made while every port of the pool is held by a registered
\* session fails: it answers with an error, launches no process and registers
\* no session.
C2_ExhaustedStartFails ==
    [][(PoolExhausted /\ nextId' = nextId + 1) =>
          /\ fwd'[nextId].resp.code # 200
          /\ proc'[nextId].state = "none"
          /\ nextId \notin DOMAIN active_forwards']_vars

\* C3: of two stop calls for the same session id at most one signals the
\* process and at most one removes the entry, the entry is removed at most
\* once and no call fails on a missing entry; when both have returned and no
\* third thread (the timer, another stop call) did the removal, exactly one of
\* them removed the entry and the other found the id absent.
C3_StopIdempotent ==
    \A s, t \in StopThreads :
        (s # t /\ thr[s].sid = thr[t].sid /\ thr[s].sid \in SessionIds) =>
            LET id == thr[s].sid IN
            /\ ~(Signalled(s, id) /\ Signalled(t, id))
            /\ ~(thr[s].result = "removed" /\ thr[t].result = "removed")
            /\ removals[id] <= 1
            /\ thr[s].result # "keyerror"
            /\ (/\ thr[s].pc = "done" /\ thr[t].pc = "done"
                /\ \A a \in Actors \ {s, t} :
                      ~(thr[a].sid = id /\ thr[a].result = "removed"))
               => {thr[s].result, thr[t].result} = {"removed", "absent"}

\* Two concurrent stop calls for one session have returned: one terminated the
\* process and removed the entry, the other, made while the first was in
\* progress, found the id absent
C3_Witness ==
    \E s, t \in StopThreads :
        /\ s # t /\ thr[s].sid = thr[t].sid /\ thr[s].sid \in SessionIds
        /\ thr[s].pc = "done" /\ thr[t].pc = "done"
        /\ thr[s].result = "removed" /\ thr[t].result = "absent"
        /\ thr[t].overlap
        /\ Signalled(s, thr[s].sid)

\* C4: of the expiry timer of a session and a stop call for the same session
\* id, at most one signals the process and at most one removes the entry, the
\* entry is removed at most once, and once both have finished each of them
\* either removed the entry or found it absent, never failed.
C4_ExpiryStopOnce ==
    \A s \in StopThreads :
        thr[s].sid \in SessionIds =>
            LET id == thr[s].sid
                tm == <<"timer", id>>
            IN
            /\ ~(Signalled(s, id) /\ Signalled(tm, id))
            /\ ~(thr[s].result = "removed" /\ thr[tm].result = "removed")
            /\ removals[id] <= 1
            /\ thr[tm].result # "keyerror"
            /\ (thr[s].pc = "done" /\ thr[tm].pc = "done")
               => /\ removals[id] = 1
                  /\ id \notin Registered
                  /\ {thr[s].result, thr[tm].result} \subseteq {"removed", "absent"}

\* The timer expired while a stop call for its session was in progress: the
\* stop call terminated the process and removed the entry, the timer found the
\* id absent
C4_Witness ==
    \E s \in StopThreads :
        /\ thr[s].sid \in SessionIds
        /\ thr[s].pc = "done" /\ thr[s].result = "removed"
        /\ Signalled(s, thr[s].sid)
        /\ thr[<<"timer", thr[s].sid>>].pc = "done"
        /\ thr[<<"timer", thr[s].sid>>].overlap
        /\ thr[<<"timer", thr[s].sid>>].result = "absent"

\* C5: no entry of a status listing is reported active when its process has
\* exited.
C5_NoStaleActive ==
    status_list # NoListing =>
        \A e \in status_list :
            e.active => proc[active_forwards[e.session_id].process].state = "running"

\* A listing reports a registered session whose process has exited
C5_Witness ==
    /\ status_list # NoListing
    /\ \E e \in status_list :
          /\ ~e.active
          /\ proc[active_forwards[e.session_id].process].state = "exited"

\* C6: when start returns an error, no session of that request is in the
\* registry and no process of that request is running.
C6_StartAllOrNothing ==
    \A id \in SessionIds :
        (fwd[id].pc = "done" /\ fwd[id].resp.code # 200) =>
            (id \notin Registered /\ ~Running(id))

\* C7: when the executor exits within the observation window, the error that
\* start returns carries the diagnostic text of the executor.
C7_LaunchErrorCarriesDiagnostic ==
    \A id \in SessionIds :
        fwd[id].launch = "exited" =>
            (fwd[id].resp.code = 500 /\ Carries(fwd[id].resp, proc[id].stderr))

\* C8: a stop call that found its session id absent answers differently from
\* a stop call that removed a registered session.
C8_StopNotFoundDistinct ==
    \A s \in StopThreads :
        (thr[s].pc = "done" /\ thr[s].result = "absent") =>
            thr[s].resp # StopResp(s, "removed")

\* C9: every registered session is eventually out of the registry with its
\* process not running, without any explicit stop being needed.
C9_ExpiryEventuallyCleans ==
    \A id \in SessionIds :
        (id \in Registered) ~> (id \notin Registered /\ ~Running(id))

\* C10: a status listing made after a stop call for a session id has returned
\* does not contain that session id.
C10_StoppedNeverListed ==
    status_list # NoListing =>
        \A e \in status_list :
            ~\E s \in StopThreads : thr[s].pc = "done" /\ thr[s].sid = e.session_id

\* A listing made after a stop call removed a session
C10_Witness ==
    /\ status_list # NoListing
    /\ \E s \in StopThreads : thr[s].pc = "done" /\ thr[s].result = "removed"

\* C11: while a stop call or a timer waits for the process of its session to
\* exit, a status listing, the stop of another session and the registration of
\* a newly started session can all proceed.
C11_GraceWaitIsolated ==
    \A a \in Actors :
        thr[a].pc = "wait" =>
            /\ ENABLED Status
            /\ \A b \in Actors :
                  (thr[b].pc = "acquire" /\ thr[b].sid # thr[a].sid)
                      => ENABLED StopAcquire(b)
            /\ nextId <= MaxSessions
                  => ENABLED Forward("demo", "web-0", "8080", 0, "ok", "pod not found")

\* C12: a thread that is between the terminate request and the removal of the
\* entry holds forward_lock, the entry it looked up is still registered, and no
\* other thread is in that section.
C12_OneThreadInTermination ==
    \A a \in Actors :
        thr[a].pc = "wait" =>
            /\ forward_lock = a
            /\ thr[a].sid \in Registered
            /\ \A b \in Actors \ {a} : thr[b].pc # "wait"

\* One thread is inside the termination of a session while another thread,
\* called for the same session, waits for the lock
C12_Witness ==
    \E a, b \in Actors :
        /\ a # b /\ thr[a].sid = thr[b].sid
        /\ thr[a].pc = "wait" /\ thr[b].pc = "acquire"
        /\ Signalled(a, thr[a].sid)

\* C13: a status listing that finds the process of a registered session dead
\* removes that session from the registry.
C13_DeadSessionRemoved ==
    [][\A id \in SessionIds :
          (status_list' # NoListing /\ id \in Registered /\ ~Running(id))
              => id \notin DOMAIN active_forwards']_vars

\* C14: a stop call or a timer that finds its session registered with a process
\* that has already exited sends no signal, does not fail, and removes the
\* session.
C14_TerminateExitedNoop ==
    [][\A a \in Actors :
          (/\ thr[a].pc = "acquire" /\ thr'[a].pc # "acquire"
           /\ thr[a].sid \in Registered /\ ~Running(thr[a].sid))
              => /\ signals' = signals
                 /\ thr'[a].pc = "done"
                 /\ thr'[a].result = "removed"
                 /\ thr'[a].resp.code # 500
                 /\ thr[a].sid \notin DOMAIN active_forwards']_vars

\* A stop call or a timer has removed a session whose process had exited on
\* its own: the process was never sent a signal
C14_Witness ==
    \E a \in Actors :
        /\ thr[a].pc = "done" /\ thr[a].result = "removed"
        /\ thr[a].sid \in SessionIds
        /\ proc[thr[a].sid].state = "exited"
        /\ signals[thr[a].sid] = <<>>
        /\ removals[thr[a].sid] = 1

\* C15: a kill is sent to a process only by a thread that sent it a terminate
\* before and waited for it, and at the moment a session is removed from the
\* registry its process is no longer running.
C15_RemovedAfterTermination ==
    [][\A id \in SessionIds :
          /\ \A a \in Actors :
                signals'[id] = Append(signals[id], <<"kill", a>>)
                    => /\ thr[a].pc = "wait"
                       /\ \E i \in DOMAIN signals[id] :
                             signals[id][i] = <<"terminate", a>>
          /\ (id \in Registered /\ id \notin DOMAIN active_forwards')
                => proc'[id].state # "running"]_vars

\* C16: the process handle of every registered session is a process that was
\* launched, and a session is in the registry only if its process was found
\* running at the end of the launch window; a start whose launch failed has
\* never been registered.
C16_RegisteredWasRunning ==
    \A id \in SessionIds :
        /\ id \in Registered =>
              /\ active_forwards[id].process \in SessionIds
              /\ proc[active_forwards[id].process].state # "none"
              /\ fwd[id].launch \in {"thread_error", "ok"}
        /\ fwd[id].launch \in {"popen_error", "exited"} =>
              /\ id \notin Registered
              /\ removals[id] = 0
              /\ thr[<<"timer", id>>].pc = "unarmed"

\* One start was registered with its process running, and another start,
\* whose process exited within the launch window, was not
C16_Witness ==
    \E i, j \in SessionIds :
        /\ i \in Registered /\ Running(active_forwards[i].process)
        /\ fwd[j].launch = "exited" /\ proc[j].state = "exited"
        /\ fwd[j].resp.code = 500
        /\ j \notin Registered

\* C17: the record of a session does not change while the session stays
\* registered; a start, a stop, an expiry or a status listing changes the
\* entry, the signals and the process of no session id other than its own; and
\* a stop of an id that is not registered changes nothing.
C17_OthersUntouched ==
    [][/\ \A id \in Registered \cap DOMAIN active_forwards' :
             active_forwards'[id] = active_forwards[id]
       /\ nextId' # nextId =>
             \A i \in SessionIds \ {nextId} :
                 /\ (i \in Registered) = (i \in DOMAIN active_forwards')
                 /\ signals'[i] = signals[i] /\ proc'[i] = proc[i]
       /\ \A a \in Actors :
             thr'[a] # thr[a] =>
                 \A i \in SessionIds \ {thr'[a].sid} :
                     /\ (i \in Registered) = (i \in DOMAIN active_forwards')
                     /\ signals'[i] = signals[i] /\ proc'[i] = proc[i]
       /\ status_list' # NoListing =>
             /\ active_forwards' = active_forwards
             /\ signals' = signals /\ proc' = proc
       /\ \A a \in Actors :
             (/\ thr[a].pc = "acquire" /\ thr'[a].pc # "acquire"
              /\ thr[a].sid \notin Registered)
                 => /\ thr'[a].result = "absent"
                    /\ UNCHANGED <<active_forwards, forward_lock, proc, signals,
                                   removals>>]_vars

\* The first session is registered as it was at its start, with its process
\* running and never signalled, after a second session was started and
\* stopped and a stop of an id that was never registered has returned
C17_Witness ==
    /\ 1 \in Registered /\ active_forwards[1].started_at = 0
    /\ Running(1) /\ signals[1] = <<>>
    /\ 2 \notin Registered /\ removals[2] = 1 /\ signals[2] # <<>>
    /\ \E s \in StopThreads :
          thr[s].pc = "done" /\ thr[s].sid = UnknownId /\ thr[s].result = "absent"

\* C18: a step of the expiry timer of a session changes the entry and the
\* signals of no other session; when the timer finds its session id absent it
\* returns without sending a signal or changing the registry; and the id given
\* to a new session was never registered before.
C18_LateExpiryHarmless ==
    [][/\ \A id \in SessionIds :
             LET tm == <<"timer", id>> IN
             thr'[tm] # thr[tm] =>
                 /\ \A i \in SessionIds \ {id} :
                       /\ (i \in Registered) = (i \in DOMAIN active_forwards')
                       /\ signals'[i] = signals[i]
                       /\ removals'[i] = removals[i]
                 /\ (/\ thr[tm].pc = "acquire" /\ thr'[tm].pc # "acquire"
                     /\ id \notin Registered)
                       => /\ thr'[tm].result = "absent"
                          /\ UNCHANGED <<active_forwards, proc, signals, removals>>
       /\ nextId' # nextId =>
             /\ nextId \notin Registered
             /\ removals[nextId] = 0]_vars

\* A stop call removed a session and returned; the timer of that session fired
\* afterwards and found the id absent, while another session is registered
\* with its process running and never signalled
C18_Witness ==
    \E id \in SessionIds, s \in StopThreads, j \in SessionIds :
        /\ thr[s].sid = id /\ thr[s].pc = "done" /\ thr[s].result = "removed"
        /\ ~thr[s].overlap
        /\ thr[<<"timer", id>>].pc = "done"
        /\ thr[<<"timer", id>>].result = "absent"
        /\ ~thr[<<"timer", id>>].overlap
        /\ j # id /\ j \in Registered /\ Running(j) /\ signals[j] = <<>>
====
